---- MODULE Spec2Model ----
(***************************************************************************)
(* Model of src/src/components/CampusMap.js: the CampusMap component's     *)
(* state, its geometry loading, the road-graph builder, the nearest-node   *)
(* resolver, the Dijkstra engine and the navigation handler.               *)
(*                                                                         *)
(* Coordinates are whole degrees.  A GeoJSON position is <<lng, lat>>; a   *)
(* graph node is the string JSON.stringify([lat, lng]).  Distances are     *)
(* those of L.latLng(a).distanceTo(b) (Leaflet), in whole metres.          *)
(***************************************************************************)
EXTENDS Integers, Sequences, FiniteSets, TLC

VARIABLES
    fetches,        \* the three loadGeoJSON promises of the effect (l.30-34)
    thenRan,        \* whether the Promise.all(...).then callback has run (l.34)
    geoData,        \* useState l.12
    startPoint,     \* useState l.13
    endPoint,       \* useState l.14
    route,          \* useState l.15
    adjacencyList,  \* useState l.16
    nav,            \* outcome and locals of the last handleNavigation call
    roads,          \* argument of a buildAdjacencyList call in progress
    roadIdx,        \* position of roads.features.forEach (1-based)
    i,              \* loop variable of the for loop l.48 (0-based)
    graph,          \* local `graph` of buildAdjacencyList
    pc,             \* position of the buildAdjacencyList call
    call            \* last direct call of findNearestNode / dijkstra

vars == <<fetches, thenRan, geoData, startPoint, endPoint, route, adjacencyList, nav,
          roads, roadIdx, i, graph, pc, call>>

appVars   == <<fetches, thenRan, geoData, startPoint, endPoint, route, nav>>
buildVars == <<roads, roadIdx, i, graph, pc>>

-----------------------------------------------------------------------------
(* Bound of the model *)

\* size of a roads document: its features plus their positions
MaxDocSize == 6

-----------------------------------------------------------------------------
(* Values *)

\* JS null / undefined for a string-valued slot (a node key, a selection)
Null == "null"

\* positions are the corners of a one-degree cell
Lats == {0, 1}
Lngs == {0, 1}

\* GeoJSON positions, [lng, lat]
LngLats == Lngs \X Lats

\* Leaflet positions, [lat, lng]
LatLngs == Lats \X Lngs

\* JSON.stringify of a two-number array
Stringify(c) == "[" \o ToString(c[1]) \o "," \o ToString(c[2]) \o "]"

\* JSON.parse of a node key
Parse(key) == CHOOSE c \in LatLngs : Stringify(c) = key

\* ([lng, lat]) => [lat, lng]
Swap(c) == <<c[2], c[1]>>

Abs(n) == IF n < 0 THEN -n ELSE n

Min(S) == CHOOSE x \in S : \A y \in S : x <= y

\* Leaflet's Earth.distance (haversine, R = 6371000 m) between positions in
\* whole degrees, rounded to whole metres: Haversine[lat1 + 1][lat2 + 1][dLng + 1]
Haversine ==
    << << <<0, 111195>>, <<111195, 157249>> >>,
       << <<111195, 157249>>, <<0, 111178>> >> >>

\* L.latLng(a).distanceTo(b), l.55 and l.70
Dist(a, b) == Haversine[a[1] + 1][b[1] + 1][Abs(a[2] - b[2]) + 1]

\* A document that failed to load (loadGeoJSON returned null)
NullDoc == [isNull |-> TRUE, features |-> <<>>]

Doc(fs) == [isNull |-> FALSE, features |-> fs]

\* {} : a JS object used as a string-keyed map.  A graph keeps the insertion
\* order of its keys (Object.keys) in `keys`; no result depends on the order
\* of the keys of an inner map.
EmptyMap == [k \in {} |-> 0]

Put(m, k, v) == [x \in (DOMAIN m) \cup {k} |-> IF x = k THEN v ELSE m[x]]

\* {} : the initial adjacencyList and the initial `graph`
EmptyGraph == [keys |-> <<>>, adj |-> EmptyMap]

Range(s) == {s[n] : n \in DOMAIN s}

\* Infinity
Infinity == 1000000000

-----------------------------------------------------------------------------
(* buildAdjacencyList, l.44-62 *)

\* variant: graph[key] = {} without the test
Ensure_Reset(g, key) ==
    [keys |-> IF key \in DOMAIN g.adj THEN g.keys ELSE Append(g.keys, key),
     adj  |-> Put(g.adj, key, EmptyMap)]

\* if (!graph[key]) graph[key] = {};
Ensure(g, key) ==
    IF key \in DOMAIN g.adj
    THEN g
    ELSE [keys |-> Append(g.keys, key), adj |-> Put(g.adj, key, EmptyMap)]

\* graph[key1][key2] = distance;
SetEdge(g, key1, key2, distance) ==
    [g EXCEPT !.adj = Put(g.adj, key1, Put(g.adj[key1], key2, distance))]

\* variant: the edge is stored under key1 only
AddSegment_OneWay(g, c1, c2) ==
    LET key1 == Stringify(c1)
        key2 == Stringify(c2)
        g2 == Ensure(Ensure(g, key1), key2)
    IN  SetEdge(g2, key1, key2, Dist(c1, c2))

\* body of the for loop, l.49-58
AddSegment(g, c1, c2) ==
    LET key1 == Stringify(c1)
        key2 == Stringify(c2)
        g1 == Ensure(g, key1)
        g2 == Ensure(g1, key2)
        distance == Dist(c1, c2)
        g3 == SetEdge(g2, key1, key2, distance)
    IN  SetEdge(g3, key2, key1, distance)

\* road.geometry.coordinates.map(([lng, lat]) => [lat, lng])
Coords(road) == [n \in DOMAIN road |-> Swap(road[n])]

\* the for loop of one feature, from index n (0-based) on
RECURSIVE ForSegments(_, _, _)
ForSegments(g, coords, n) ==
    IF n < Len(coords) - 1
    THEN ForSegments(AddSegment(g, coords[n + 1], coords[n + 2]), coords, n + 1)
    ELSE g

\* roads.features.forEach, from feature r (1-based) on
RECURSIVE ForEachRoad(_, _, _)
ForEachRoad(g, features, r) ==
    IF r <= Len(features)
    THEN ForEachRoad(ForSegments(g, Coords(features[r]), 0), features, r + 1)
    ELSE g

buildAdjacencyList(rds) == ForEachRoad(EmptyGraph, rds.features, 1)

-----------------------------------------------------------------------------
(* Inputs *)

SeqsUpTo(S, n) == UNION {[1..m -> S] : m \in 0..n}

\* the feature lists of size at most n; a feature is its geometry.coordinates
RECURSIVE FeatureLists(_)
FeatureLists(n) ==
    {<<>>} \cup
    (IF n = 0 THEN {}
     ELSE UNION {{<<road>> \o rest : rest \in FeatureLists(n - 1 - Len(road))} :
                   road \in SeqsUpTo(LngLats, n - 1)})

\* the roads documents of size at most MaxDocSize
RoadDocs == {Doc(fs) : fs \in FeatureLists(MaxDocSize)}

-----------------------------------------------------------------------------
(* Initial values of the component state, l.12-16 *)

FetchNames == {"roads1", "buildings1", "points1"}

Pending == [settled |-> FALSE, doc |-> NullDoc]

NoNav == [outcome |-> "none", startNode |-> Null, endNode |-> Null,
          path |-> [isNull |-> TRUE, coords |-> <<>>]]

NoCall == [fn |-> "none", latlng |-> <<0, 0>>, nearest |-> Null,
           start |-> Null, end |-> Null,
           path |-> [isNull |-> TRUE, coords |-> <<>>]]

\* everything but adjacencyList
UiInit ==
    /\ fetches = [n \in FetchNames |-> Pending]
    /\ thenRan = FALSE
    /\ geoData = [roads |-> NullDoc, buildings |-> NullDoc, points |-> NullDoc]
    /\ startPoint = Null
    /\ endPoint = Null
    /\ route = [isNull |-> TRUE, coords |-> <<>>]
    /\ nav = NoNav

AppInit == UiInit /\ adjacencyList = EmptyGraph

BuildIdle ==
    /\ roads = NullDoc
    /\ roadIdx = 1
    /\ i = 0
    /\ graph = EmptyGraph
    /\ pc = "idle"

-----------------------------------------------------------------------------
(* A buildAdjacencyList call, one loop iteration per step *)

BuildInit ==
    /\ AppInit
    /\ call = NoCall
    /\ roads \in RoadDocs
    /\ roadIdx = 1
    /\ i = 0
    /\ graph = EmptyGraph
    /\ pc = "forEach"

\* one iteration of the for loop, l.48-59
Segment ==
    /\ pc = "forEach"
    /\ roadIdx <= Len(roads.features)
    /\ LET coords == Coords(roads.features[roadIdx])
       IN  /\ i < Len(coords) - 1
           /\ graph' = AddSegment(graph, coords[i + 1], coords[i + 2])
    /\ i' = i + 1
    /\ UNCHANGED <<appVars, adjacencyList, call, roads, roadIdx, pc>>

\* the for loop ends; forEach moves to the next feature
NextRoad ==
    /\ pc = "forEach"
    /\ roadIdx <= Len(roads.features)
    /\ ~(i < Len(Coords(roads.features[roadIdx])) - 1)
    /\ roadIdx' = roadIdx + 1
    /\ i' = 0
    /\ UNCHANGED <<appVars, adjacencyList, call, roads, graph, pc>>

\* return graph; (l.61) and setAdjacencyList(adjacency) (l.39)
ReturnGraph ==
    /\ pc = "forEach"
    /\ roadIdx > Len(roads.features)
    /\ pc' = "returned"
    /\ adjacencyList' = graph
    /\ UNCHANGED <<appVars, call, roads, roadIdx, i, graph>>

BuildNext == Segment \/ NextRoad \/ ReturnGraph

SpecBuild == BuildInit /\ [][BuildNext]_vars

-----------------------------------------------------------------------------
(* findNearestNode, l.64-78 *)

\* variant: a node at the same distance replaces the one found before
Closer_OrEqual(distance, minDistance) == distance <= minDistance

\* distance < minDistance, l.71
Closer(distance, minDistance) == distance < minDistance

\* Object.keys(adjacencyList).forEach, from key n (1-based) on
RECURSIVE NearestScan(_, _, _, _, _)
NearestScan(keys, latlng, n, nearest, minDistance) ==
    IF n > Len(keys)
    THEN nearest
    ELSE LET node == keys[n]
             nodeCoords == Parse(node)
             distance == Dist(latlng, nodeCoords)
         IN  IF Closer(distance, minDistance)
             THEN NearestScan(keys, latlng, n + 1, node, distance)
             ELSE NearestScan(keys, latlng, n + 1, nearest, minDistance)

findNearestNode(g, latlng) == NearestScan(g.keys, latlng, 1, Null, Infinity)

-----------------------------------------------------------------------------
(* dijkstra, l.80-122 *)

NullPath == [isNull |-> TRUE, coords |-> <<>>]

Path(cs) == [isNull |-> FALSE, coords |-> cs]

\* Array.from(unvisited).reduce((minNode, node) =>
\*     distances[node] < distances[minNode] ? node : minNode), l.95-97
RECURSIVE Reduce(_, _, _, _)
Reduce(unvisited, distances, n, minNode) ==
    IF n > Len(unvisited)
    THEN minNode
    ELSE Reduce(unvisited, distances, n + 1,
                IF distances[unvisited[n]] < distances[minNode]
                THEN unvisited[n] ELSE minNode)

\* unvisited.delete(current): a Set keeps the order of the remaining members
Delete(unvisited, current) == SelectSeq(unvisited, LAMBDA x : x # current)

\* variant: the edge weight is not added
Alt_NoWeight(g, distances, current, neighbor) == distances[current]

\* alt of l.105
Alt(g, distances, current, neighbor) == distances[current] + g.adj[current][neighbor]

\* l.104-111.  No neighbour's update reads what another neighbour's update
\* wrote (alt < distances[current] never holds for current itself), so the
\* forEach is the pointwise update.
Relax(g, current, st) ==
    LET improves(n) == /\ n \in DOMAIN g.adj[current]
                       /\ Alt(g, st.distances, current, n) < st.distances[n]
    IN  [distances |-> [n \in DOMAIN st.distances |->
                           IF improves(n) THEN Alt(g, st.distances, current, n)
                           ELSE st.distances[n]],
         previous  |-> [n \in DOMAIN st.previous |->
                           IF improves(n) THEN current ELSE st.previous[n]],
         unvisited |-> Delete(st.unvisited, current)]

\* the while loop, l.94-112
RECURSIVE Loop(_, _, _)
Loop(g, end, st) ==
    IF Len(st.unvisited) = 0
    THEN st
    ELSE LET current == Reduce(st.unvisited, st.distances, 2, st.unvisited[1])
         IN  IF st.distances[current] = Infinity THEN st
             ELSE IF current = end THEN st
             ELSE Loop(g, end, Relax(g, current, st))

\* previous[step], undefined for a step that is not a key of previous
Previous(previous, step) == IF step \in DOMAIN previous THEN previous[step] ELSE Null

\* the while loop, l.116-119
RECURSIVE Unshift(_, _, _)
Unshift(previous, step, path) ==
    IF step = Null
    THEN path
    ELSE Unshift(previous, Previous(previous, step), <<Parse(step)>> \o path)

\* the value of the `path` property of the returned object
dijkstra(g, start, end) ==
    IF start = Null \/ end = Null
    THEN NullPath
    ELSE LET nodes == Range(g.keys)
             st0 == [distances |-> [n \in nodes \cup {start} |->
                                       IF n = start THEN 0 ELSE Infinity],
                     previous  |-> [n \in nodes |-> Null],
                     unvisited |-> g.keys]
             st == Loop(g, end, st0)
         IN  Path(Unshift(st.previous, end, <<>>))

-----------------------------------------------------------------------------
(* Direct calls of findNearestNode and dijkstra on a built graph *)

Keys == {Stringify(c) : c \in LatLngs}

QueryInit ==
    /\ UiInit
    /\ adjacencyList \in {buildAdjacencyList(r) : r \in RoadDocs}
    /\ BuildIdle
    /\ call = NoCall

CallNearest ==
    /\ call.fn = "none"
    /\ \E latlng \in LatLngs :
          call' = [NoCall EXCEPT !.fn = "findNearestNode",
                                 !.latlng = latlng,
                                 !.nearest = findNearestNode(adjacencyList, latlng)]
    /\ UNCHANGED <<appVars, adjacencyList, buildVars>>

CallDijkstra ==
    /\ call.fn = "none"
    /\ \E start \in Keys \cup {Null}, end \in Keys \cup {Null} :
          call' = [NoCall EXCEPT !.fn = "dijkstra",
                                 !.start = start,
                                 !.end = end,
                                 !.path = dijkstra(adjacencyList, start, end)]
    /\ UNCHANGED <<appVars, adjacencyList, buildVars>>

QueryNext == CallNearest \/ CallDijkstra

SpecQuery == QueryInit /\ [][QueryNext]_vars
-----------------------------------------------------------------------------
(* The component: loading, selecting, navigating *)

\* a point feature's geometry: a Point, null, or one without `coordinates`
PointGeometry(c) == [type |-> "Point", coordinates |-> c]
NullGeometry == [type |-> "null", coordinates |-> <<0, 0>>]
CollectionGeometry == [type |-> "GeometryCollection", coordinates |-> <<0, 0>>]

PointFeature(name, geometry) == [name |-> name, geometry |-> geometry]

\* the documents a fetch of roads1 can deliver
AppRoadDocs ==
    { Doc(<< <<(<<0, 0>>), (<<1, 0>>), (<<1, 1>>)>> >>),
      Doc(<< <<(<<0, 0>>), (<<1, 0>>)>>, <<(<<0, 1>>), (<<1, 1>>)>> >>),
      Doc(<< <<(<<0, 0>>), (<<0, 1>>), (<<1, 1>>)>>, <<(<<0, 0>>), (<<1, 0>>), (<<1, 1>>)>> >>),
      Doc(<<>>) }

\* the documents a fetch of points1 can deliver
AppPointDocs ==
    { Doc(<< PointFeature("A", PointGeometry(<<0, 0>>)),
             PointFeature("B", PointGeometry(<<1, 1>>)),
             PointFeature("C", NullGeometry) >>),
      Doc(<< PointFeature("A", PointGeometry(<<1, 0>>)),
             PointFeature("B", PointGeometry(<<0, 1>>)),
             PointFeature("D", CollectionGeometry) >>) }

\* what loadGeoJSON(name) can resolve to: the parsed document, or null
Results(name) ==
    {NullDoc} \cup
    CASE name = "roads1"     -> AppRoadDocs
      [] name = "buildings1" -> {Doc(<<>>)}
      [] name = "points1"    -> AppPointDocs

Init == AppInit /\ BuildIdle /\ call = NoCall

\* loadGeoJSON(name) settles, l.19-28
FetchSettle(name) ==
    /\ ~fetches[name].settled
    /\ \E doc \in Results(name) :
          fetches' = [fetches EXCEPT ![name] = [settled |-> TRUE, doc |-> doc]]
    /\ UNCHANGED <<thenRan, geoData, startPoint, endPoint, route, nav,
                   adjacencyList, buildVars, call>>

\* variant: the callback waits for the roads document only
AllSettled_RoadsOnly == fetches["roads1"].settled

\* Promise.all([...]) is fulfilled, l.30-34
AllSettled == \A name \in FetchNames : fetches[name].settled

\* the then callback, l.34-41
Then ==
    /\ ~thenRan
    /\ AllSettled
    /\ thenRan' = TRUE
    /\ geoData' = [roads     |-> fetches["roads1"].doc,
                   buildings |-> fetches["buildings1"].doc,
                   points    |-> fetches["points1"].doc]
    /\ adjacencyList' = IF ~fetches["roads1"].doc.isNull
                        THEN buildAdjacencyList(fetches["roads1"].doc)
                        ELSE adjacencyList
    /\ UNCHANGED <<fetches, startPoint, endPoint, route, nav, buildVars, call>>

\* the option values a <select> offers, l.152-158 and l.163-169
Options ==
    {""} \cup (IF geoData.points.isNull THEN {}
               ELSE {geoData.points.features[n].name :
                        n \in DOMAIN geoData.points.features})

\* the value a <select> shows: its first option until the user changes it
Shown(selection) == IF selection = Null THEN "" ELSE selection

\* variant: a new start selection clears the route
SetStartPoint_ClearsRoute(value) ==
    /\ value \in Options
    /\ value # Shown(startPoint)
    /\ startPoint' = value
    /\ route' = [isNull |-> TRUE, coords |-> <<>>]
    /\ UNCHANGED <<fetches, thenRan, geoData, endPoint, nav,
                   adjacencyList, buildVars, call>>

\* onChange of the Start select, l.151
SetStartPoint(value) ==
    /\ value \in Options
    /\ value # Shown(startPoint)
    /\ startPoint' = value
    /\ UNCHANGED <<fetches, thenRan, geoData, endPoint, route, nav,
                   adjacencyList, buildVars, call>>

\* onChange of the End select, l.162
SetEndPoint(value) ==
    /\ value \in Options
    /\ value # Shown(endPoint)
    /\ endPoint' = value
    /\ UNCHANGED <<fetches, thenRan, geoData, startPoint, route, nav,
                   adjacencyList, buildVars, call>>

\* !startPoint || !endPoint, l.125
MissingSelection(sp, ep) == sp = Null \/ sp = "" \/ ep = Null \/ ep = ""

\* geoData.points.features.find(p => p.properties.name === name)
\*     ?.geometry.coordinates, l.127-128
Lookup(points, name) ==
    IF points.isNull
    THEN [kind |-> "throws", value |-> <<0, 0>>]
    ELSE LET fs == points.features
             hits == {n \in DOMAIN fs : fs[n].name = name}
         IN  IF hits = {}
             THEN [kind |-> "undefined", value |-> <<0, 0>>]
             ELSE LET p == fs[Min(hits)]
                  IN  CASE p.geometry.type = "null" ->
                             [kind |-> "throws", value |-> <<0, 0>>]
                        [] p.geometry.type = "Point" ->
                             [kind |-> "value", value |-> p.geometry.coordinates]
                        [] OTHER ->
                             [kind |-> "undefined", value |-> <<0, 0>>]

\* variant: only the empty path is rejected
NoValidPath_Empty(path) == path.isNull \/ Len(path.coords) < 1

\* !path || path.length < 2, l.139
NoValidPath(path) == path.isNull \/ Len(path.coords) < 2

Ended(outcome) == [NoNav EXCEPT !.outcome = outcome]

\* handleNavigation, l.124-145: the outcome with the handler's locals, and
\* the value of route when it returns or throws
Navigation(points, sp, ep, g, rt) ==
    IF MissingSelection(sp, ep)
    THEN [nav |-> Ended("missing selection"), route |-> rt]
    ELSE LET startCoords == Lookup(points, sp)
             endCoords == Lookup(points, ep)
         IN
         IF startCoords.kind = "throws" \/ endCoords.kind = "throws"
         THEN [nav |-> Ended("exception"), route |-> rt]
         ELSE IF startCoords.kind = "undefined" \/ endCoords.kind = "undefined"
         THEN [nav |-> Ended("invalid points"), route |-> rt]
         ELSE LET startNode == findNearestNode(g, <<startCoords.value[2], startCoords.value[1]>>)
                  endNode == findNearestNode(g, <<endCoords.value[2], endCoords.value[1]>>)
              IN
              IF startNode = Null \/ endNode = Null
              THEN [nav |-> Ended("unreachable"), route |-> rt]
              ELSE LET path == dijkstra(g, startNode, endNode)
                       locals == [startNode |-> startNode, endNode |-> endNode,
                                  path |-> path]
                   IN  IF NoValidPath(path)
                       THEN [nav |-> [outcome |-> "no path"] @@ locals,
                             route |-> NullPath]
                       ELSE [nav |-> [outcome |-> "success"] @@ locals,
                             route |-> path]

\* onClick of Find Route, l.172
HandleNavigation ==
    LET r == Navigation(geoData.points, startPoint, endPoint, adjacencyList, route)
    IN  /\ nav' = r.nav
        /\ route' = r.route
        /\ UNCHANGED <<fetches, thenRan, geoData, startPoint, endPoint,
                       adjacencyList, buildVars, call>>

Names == {"", "A", "B", "C", "D"}

Next ==
    \/ \E name \in FetchNames : FetchSettle(name)
    \/ Then
    \/ \E value \in Names : SetStartPoint(value)
    \/ \E value \in Names : SetEndPoint(value)
    \/ HandleNavigation

Spec == Init /\ [][Next]_vars

-----------------------------------------------------------------------------
(* Properties of buildAdjacencyList (SpecBuild) *)

Nodes(g) == Range(g.keys)

IndexOf(keys, k) == CHOOSE n \in DOMAIN keys : keys[n] = k

HasEdge(g, a, b) == a \in DOMAIN g.adj /\ b \in DOMAIN g.adj[a]

\* the segments of one feature, as pairs of [lat, lng] positions
SegmentsOf(road) ==
    [n \in 1..(IF Len(road) < 2 THEN 0 ELSE Len(road) - 1) |->
        <<Swap(road[n]), Swap(road[n + 1])>>]

\* the segments of the features r..Len(features), in input order
RECURSIVE SegmentsFrom(_, _)
SegmentsFrom(features, r) ==
    IF r > Len(features) THEN <<>>
    ELSE SegmentsOf(features[r]) \o SegmentsFrom(features, r + 1)

\* the segments the call in progress has processed so far
Processed ==
    LET done == SegmentsFrom(SubSeq(roads.features, 1, roadIdx - 1), 1)
    IN  IF roadIdx <= Len(roads.features)
        THEN done \o SubSeq(SegmentsOf(roads.features[roadIdx]), 1, i)
        ELSE done

Joins(seg, a, b) == {seg[1], seg[2]} = {a, b}

\* the last processed segment between positions a and b
LastOf(segs, a, b) ==
    segs[CHOOSE n \in DOMAIN segs :
            /\ Joins(segs[n], a, b)
            /\ \A m \in DOMAIN segs : Joins(segs[m], a, b) => m <= n]

Symmetric(g) ==
    \A a \in DOMAIN g.adj : \A b \in DOMAIN g.adj[a] :
        /\ b \in Nodes(g)
        /\ b \in DOMAIN g.adj
        /\ a \in DOMAIN g.adj[b]
        /\ g.adj[b][a] = g.adj[a][b]

\* C3: the graph under construction, after every processed segment, and the
\* returned graph are symmetric: every neighbour b of a node a is a node and
\* has a as a neighbour with the same weight.
C3_Symmetry == Symmetric(graph) /\ Symmetric(adjacencyList)

\* a segment described twice has been processed and the graph holds its edge
C3_Witness ==
    /\ pc = "forEach"
    /\ \E m, n \in DOMAIN Processed :
          /\ m < n
          /\ Processed[m][1] # Processed[m][2]
          /\ Joins(Processed[n], Processed[m][1], Processed[m][2])
          /\ HasEdge(graph, Stringify(Processed[m][1]), Stringify(Processed[m][2]))

\* C4 (as claimed): no node is a key of its own adjacency map.
C4_NoSelfLoop ==
    /\ \A a \in DOMAIN graph.adj : a \notin DOMAIN graph.adj[a]
    /\ \A a \in DOMAIN adjacencyList.adj : a \notin DOMAIN adjacencyList.adj[a]

MatchesSegments(g, segs) ==
    LET ends == UNION {{segs[n][1], segs[n][2]} : n \in DOMAIN segs}
    IN  /\ {Parse(k) : k \in Nodes(g)} = ends
        /\ Nodes(g) = {Stringify(c) : c \in ends}
        /\ Len(g.keys) = Cardinality(ends)
        /\ DOMAIN g.adj = Nodes(g)
        /\ \A a \in ends, b \in ends :
              IF \E n \in DOMAIN segs : Joins(segs[n], a, b)
              THEN /\ HasEdge(g, Stringify(a), Stringify(b))
                   /\ g.adj[Stringify(a)][Stringify(b)] =
                        Dist(LastOf(segs, a, b)[1], LastOf(segs, a, b)[2])
              ELSE ~HasEdge(g, Stringify(a), Stringify(b))

\* C5: the nodes are exactly the distinct positions that end a processed
\* segment (features with fewer than 2 positions add nothing), there is an
\* edge between two nodes exactly when some segment joins them, and its
\* weight is the distance computed for the last such segment in input order.
C5_NodesAndEdges ==
    /\ MatchesSegments(graph, Processed)
    /\ pc = "returned" => MatchesSegments(adjacencyList, SegmentsFrom(roads.features, 1))

\* the duplicate reversed segment of the scenario: 2 nodes, 1 edge
C5_Witness ==
    /\ pc = "returned"
    /\ roads = Doc(<< <<(<<0, 0>>), (<<1, 0>>)>>, <<(<<1, 0>>), (<<0, 0>>)>> >>)
    /\ Len(adjacencyList.keys) = 2
    /\ adjacencyList.adj["[0,0]"] = [k \in {"[0,1]"} |-> 111195]
    /\ adjacencyList.adj["[0,1]"] = [k \in {"[0,0]"} |-> 111195]
-----------------------------------------------------------------------------
(* Reference shortest distances: |nodes| rounds of relaxing every edge *)

RefRound(g, D) ==
    [v \in Nodes(g) |->
        Min({D[v]} \cup {D[u] + g.adj[u][v] :
                           u \in {x \in Nodes(g) : D[x] < Infinity /\ HasEdge(g, x, v)}})]

RECURSIVE RefRounds(_, _, _)
RefRounds(g, D, n) == IF n = 0 THEN D ELSE RefRounds(g, RefRound(g, D), n - 1)

\* minimum total weight of a path from start to end, Infinity if there is none
RefDistance(g, start, end) ==
    RefRounds(g, [v \in Nodes(g) |-> IF v = start THEN 0 ELSE Infinity],
              Cardinality(Nodes(g)))[end]

RECURSIVE PathWeight(_, _)
PathWeight(g, coords) ==
    IF Len(coords) < 2 THEN 0
    ELSE g.adj[Stringify(coords[1])][Stringify(coords[2])] + PathWeight(g, Tail(coords))

-----------------------------------------------------------------------------
(* Properties of dijkstra and findNearestNode (SpecQuery) *)

\* C1: a path of length >= 2 returned for start # end begins with start, ends
\* with end, follows edges of the graph, and its total weight is the minimum
\* over all start-to-end paths.
C1_ShortestPath ==
    (/\ call.fn = "dijkstra"
     /\ call.start # call.end
     /\ ~call.path.isNull
     /\ Len(call.path.coords) >= 2)
    => LET coords == call.path.coords
       IN  /\ coords[1] = Parse(call.start)
           /\ coords[Len(coords)] = Parse(call.end)
           /\ \A n \in 1..(Len(coords) - 1) :
                 HasEdge(adjacencyList, Stringify(coords[n]), Stringify(coords[n + 1]))
           /\ call.start \in Nodes(adjacencyList)
           /\ call.end \in Nodes(adjacencyList)
           /\ PathWeight(adjacencyList, coords) =
                 RefDistance(adjacencyList, call.start, call.end)

\* a three-node path was returned; another neighbour m of start tied with
\* the path's middle node at the minimum selection, was selected first as
\* the earlier key, and gave end a larger distance that was then replaced
C1_Witness ==
    /\ call.fn = "dijkstra"
    /\ ~call.path.isNull
    /\ Len(call.path.coords) = 3
    /\ LET g == adjacencyList
           mid == Stringify(call.path.coords[2])
       IN  \E m \in Nodes(g) :
              /\ m # mid
              /\ HasEdge(g, call.start, m)
              /\ HasEdge(g, m, call.end)
              /\ g.adj[call.start][m] = g.adj[call.start][mid]
              /\ IndexOf(g.keys, m) < IndexOf(g.keys, mid)
              /\ g.adj[call.start][m] + g.adj[m][call.end] >
                    PathWeight(g, call.path.coords)

Unreachable(g, start, end) ==
    \/ start \notin Nodes(g)
    \/ end \notin Nodes(g)
    \/ RefDistance(g, start, end) = Infinity

\* C2 (as claimed): when end cannot be reached from start, dijkstra's result
\* is the null path, not a coordinate sequence.
C2_NoPathIsNull ==
    (/\ call.fn = "dijkstra"
     /\ call.start # Null
     /\ call.end # Null
     /\ Unreachable(adjacencyList, call.start, call.end))
    => call.path.isNull

\* C6: findNearestNode returns null exactly for the graph without nodes;
\* otherwise a node at minimal distance from the target, and the first such
\* node in the iteration order of the graph's keys.
C6_Nearest ==
    call.fn = "findNearestNode" =>
        LET keys == adjacencyList.keys
            d(k) == Dist(call.latlng, Parse(k))
        IN  /\ call.nearest = Null <=> Len(keys) = 0
            /\ Len(keys) > 0 =>
                  /\ call.nearest \in Nodes(adjacencyList)
                  /\ \A k \in Nodes(adjacencyList) : d(call.nearest) <= d(k)
                  /\ \A n \in DOMAIN keys :
                        n < IndexOf(keys, call.nearest) => d(keys[n]) > d(call.nearest)

\* two nodes are at the minimal distance and the earlier one was returned
C6_Witness ==
    /\ call.fn = "findNearestNode"
    /\ call.nearest # Null
    /\ \E n \in DOMAIN adjacencyList.keys :
          /\ n > IndexOf(adjacencyList.keys, call.nearest)
          /\ Dist(call.latlng, Parse(adjacencyList.keys[n])) =
                Dist(call.latlng, Parse(call.nearest))
    /\ IndexOf(adjacencyList.keys, call.nearest) > 1
-----------------------------------------------------------------------------
(* Properties of the component (Spec) *)

\* the [lat, lng] positions of the point features that have coordinates
PointTargets ==
    IF geoData.points.isNull THEN {}
    ELSE {Swap(geoData.points.features[n].geometry.coordinates) :
            n \in {m \in DOMAIN geoData.points.features :
                     geoData.points.features[m].geometry.type = "Point"}}

\* C7: route is null or a path of length >= 2 that dijkstra returned for the
\* nearest nodes of two points; a successful request leaves its path in
\* route; a request whose start and end resolve to one node gets the
\* single-node path, ends as "no path" and leaves route null.
C7_OnlySuccessForwarded ==
    /\ ~route.isNull =>
          /\ Len(route.coords) >= 2
          /\ \E p \in PointTargets, q \in PointTargets :
                /\ findNearestNode(adjacencyList, p) # Null
                /\ findNearestNode(adjacencyList, q) # Null
                /\ route = dijkstra(adjacencyList, findNearestNode(adjacencyList, p),
                                    findNearestNode(adjacencyList, q))
    /\ nav.outcome = "success" => route = nav.path /\ Len(route.coords) >= 2
    /\ (nav.startNode # Null /\ nav.startNode = nav.endNode) =>
          /\ nav.path = Path(<<Parse(nav.startNode)>>)
          /\ nav.outcome = "no path"
          /\ route.isNull

\* start and end resolved to the same node and the request ended as "no path"
C7_Witness ==
    /\ nav.startNode # Null
    /\ nav.startNode = nav.endNode
    /\ startPoint = endPoint
    /\ nav.path = Path(<<Parse(nav.startNode)>>)
    /\ nav.outcome = "no path"
    /\ route.isNull

\* C8 (as claimed): no navigation request ends in a raised exception.
C8_NeverThrows == nav.outcome # "exception"

InitialGeoData == [roads |-> NullDoc, buildings |-> NullDoc, points |-> NullDoc]

\* C9: geoData and adjacencyList keep their initial values until all three
\* fetches have settled; the callback then stores each document, null for a
\* failed fetch, and builds the graph from the roads document; without a
\* roads document the graph stays empty and no request gets as far as a
\* path search: one that resolves both points ends as "unreachable".
C9_JoinBeforeBuild ==
    /\ (thenRan \/ geoData # InitialGeoData \/ adjacencyList # EmptyGraph) => AllSettled
    /\ thenRan =>
          /\ geoData = [roads     |-> fetches["roads1"].doc,
                        buildings |-> fetches["buildings1"].doc,
                        points    |-> fetches["points1"].doc]
          /\ ~geoData.roads.isNull => adjacencyList = buildAdjacencyList(geoData.roads)
    /\ geoData.roads.isNull =>
          /\ adjacencyList = EmptyGraph
          /\ nav.outcome \notin {"success", "no path"}

\* the roads fetch failed, the points fetch did not, and a request with two
\* resolved points ended as "unreachable"
C9_Witness ==
    /\ thenRan
    /\ geoData.roads.isNull
    /\ ~geoData.points.isNull
    /\ ~geoData.buildings.isNull
    /\ nav.outcome = "unreachable"

\* C10: a step changes route only to the path of a request that ends as
\* "success" or to null for one that ends as "no path"; a step that ends a
\* request any other way, or changes a selection, leaves route unchanged.
C10_RouteFrame ==
    [][ /\ route' # route =>
              \/ nav'.outcome = "success" /\ route' = nav'.path
              \/ nav'.outcome = "no path" /\ route'.isNull
        /\ nav'.outcome = "success" => route' = nav'.path
        /\ nav'.outcome = "no path" => route'.isNull
        /\ nav'.outcome \in {"missing selection", "invalid points", "unreachable",
                             "exception", "none"} => route' = route
        /\ (startPoint' # startPoint \/ endPoint' # endPoint) => route' = route
      ]_vars

\* a route is still set after a later request ended as "missing selection"
\* and after the selection was changed
C10_Witness ==
    /\ ~route.isNull
    /\ nav.outcome = "missing selection"
    /\ startPoint = ""
====
